---- MODULE Spec2Model ----
(***************************************************************************)
(* Fragment reassembly of AIS (AIVDM) sentences: pynmea2_ais.ais_parser.   *)
(* The class VDM keeps an ordered map SEQUENTIAL_MSG from sequential       *)
(* message id to the last sentence accepted for it; constructing a VDM     *)
(* sentence (VDM.__init__) runs parse_payload on it.                       *)
(***************************************************************************)
EXTENDS Integers, Sequences, FiniteSets, TLC

\* ---- bounds of the model
NumIds == 2
MaxFrag == 3
MaxText == 2
MaxFields == 2
RaceFrag == 2

\* SEQ_LIMIT = float("inf"): no limit
Unbounded == -1

Ids == 1 .. NumIds
CapIds == 1 .. (NumIds + 1)
Chunks == {"", "A", "B"}
CapChunks == {"", "A"}
FillBits == {0}
FillBitsTwo == {0, 2}
\* a limit of at least the number of ids never binds: it behaves as Unbounded
Limits(ids) == {Unbounded} \cup (0 .. (Cardinality(ids) - 1))

\* A VDM sentence as the talker-sentence framework hands it over: the
\* fields of VDM.fields (radio_code is not read by the reassembly).
SentencesWith(ids, chunks, fills) ==
    [count : 1 .. MaxFrag, fragment : 1 .. MaxFrag, sequential_msg_id : ids,
     payload : chunks, fill_bits : fills]

Sentences(ids, chunks) == SentencesWith(ids, chunks, FillBits)

VARIABLES
    SEQUENTIAL_MSG,   \* the OrderedDict, as the sequence of its values in key order
    SEQ_LIMIT,        \* the configured limit, Unbounded by default
    sentence,         \* the sentence the last constructor call was given
    prev_seq,         \* what the last call found under its id: <<>> (None) or <<slot>>
    outcome,          \* how the reassembly of the last call ended
    result,           \* payload of the constructed sentence after the call
    missing,          \* the fragment IncompleteMessageError names (0: not raised)
    notified,         \* ids NOTIFY was called with during the last call
    decoded,          \* calls of parse_complete_payload during the last call
    raised,           \* the exception the last call ended with ("": it returned)
    unpacked,         \* the raw fields aivdm_unpack yielded during the last call
    sub_fields,       \* sub_fields of the sentence the last call constructed
    chain,            \* history: per id, the fragments received in turn since its fragment 1
    threads,          \* calls of parse_payload in progress on concurrent threads
    atomic            \* whether a call runs to its end before another starts

vars == <<SEQUENTIAL_MSG, SEQ_LIMIT, sentence, prev_seq, outcome, result,
          missing, notified, decoded, raised, unpacked, sub_fields, chain,
          threads, atomic>>

AllIds == Ids \cup CapIds

Range(seq) == {seq[i] : i \in DOMAIN seq}

RECURSIVE Join(_)
Join(chunks) == IF chunks = <<>> THEN "" ELSE Head(chunks) \o Join(Tail(chunks))

\* ---- values of decoded fields: an int, a float (n / 10^frac) or a text (its
\* characters); every value has the same shape so that any two compare
IntVal(n) == [t |-> "int", s |-> <<>>, n |-> n, frac |-> 0]
FloatVal(n, frac) == [t |-> "float", s |-> <<>>, n |-> n, frac |-> frac]
StrVal(chars) == [t |-> "str", s |-> chars, n |-> 0, frac |-> 0]

Chars == {"1", ".", "x"}
Digit(c) == c = "1"

RECURSIVE TextsOfLen(_)
TextsOfLen(n) ==
    IF n = 0 THEN {<<>>}
    ELSE {Append(w, c) : w \in TextsOfLen(n - 1), c \in Chars}

Texts == UNION {TextsOfLen(n) : n \in 0 .. MaxText}

\* int(val) of a text: at least one character, all of them digits
IntParses(chars) == chars # <<>> /\ \A i \in DOMAIN chars : Digit(chars[i])

RECURSIVE IntOf(_)
IntOf(chars) ==
    IF chars = <<>> THEN 0
    ELSE 10 * IntOf(SubSeq(chars, 1, Len(chars) - 1)) + 1

\* float(val) of a text that int() refused: digits around exactly one point
Points(chars) == {i \in DOMAIN chars : chars[i] = "."}

FloatParses(chars) ==
    /\ Cardinality(Points(chars)) = 1
    /\ Len(chars) >= 2
    /\ \A i \in DOMAIN chars : Digit(chars[i]) \/ chars[i] = "."

FloatOf(chars) ==
    LET p == CHOOSE i \in DOMAIN chars : chars[i] = "."
    IN  FloatVal(IntOf(SelectSeq(chars, Digit)), Len(chars) - p)

\* "if isinstance(val, str): try int(val) / except: try float(val) / except: pass"
Coerce(val) ==
    IF val.t # "str" THEN val
    ELSE IF IntParses(val.s) THEN IntVal(IntOf(val.s))
    ELSE IF FloatParses(val.s) THEN FloatOf(val.s)
    ELSE val

\* the last item of a raw field: a callable, a lookup table, or neither; a
\* callable or table gives out for the raw values of one type and raises for
\* the others
NoDecoder == [kind |-> "none", accepts |-> "int", out |-> IntVal(0)]

\* field[4](field[1])
Calls(dec, raw) == dec.kind = "callable" /\ dec.accepts = raw.t

\* field[4][field[1]]
Indexes(dec, raw) == dec.kind = "table" /\ dec.accepts = raw.t

DecodeCallOnly(dec, raw) ==
    IF Calls(dec, raw) THEN dec.out ELSE raw

\* try: field[4](field[1]) / except: try: field[4][field[1]] / except: field[1]
Decode(dec, raw) ==
    IF Calls(dec, raw) THEN dec.out
    ELSE IF Indexes(dec, raw) THEN dec.out
    ELSE raw

\* the body of "for field in sub_fields"
InterpretField(field) ==
    IF Len(field) = 5
    THEN <<field[1], Coerce(Decode(field[5], field[2])), field[3], field[4],
           field[2]>> \o SubSeq(field, 5, Len(field))
    ELSE field

\* "interpreted = [] ... interpreted.append(list(field)) ... return interpreted"
Interpret(fields) == [i \in DOMAIN fields |-> InterpretField(fields[i])]

\* the raw fields the unpacking may yield: (name, raw value, type, label) with
\* or without a last item
RawValues == {IntVal(1)} \cup {StrVal(w) : w \in Texts}

Decoders ==
    {NoDecoder} \cup [kind : {"callable", "table"}, accepts : {"int", "str"},
                      out : RawValues]

RawFields ==
    {<<"name", raw, "type", "label">> : raw \in RawValues}
    \cup {<<"name", raw, "type", "label", dec>> :
             raw \in RawValues, dec \in Decoders}

\* aivdm_unpack on the bits of a payload: not part of the sources at hand;
\* one field without decoder that carries the payload
Unpack(payload) ==
    << <<"payload", StrVal(<<payload>>), "bits", "Payload">> >>

\* ---- OrderedDict operations
Keys(map) == {map[i].sequential_msg_id : i \in DOMAIN map}

IndexOf(map, id) == CHOOSE i \in DOMAIN map : map[i].sequential_msg_id = id

\* SEQUENTIAL_MSG.get(id, None)
Get(map, id) == IF id \in Keys(map) THEN <<map[IndexOf(map, id)]>> ELSE <<>>

\* SEQUENTIAL_MSG[id] = self: an existing key keeps its place, a new one goes last
SetItemAlone(map, self) == <<self>>

SetItem(map, self) ==
    IF self.sequential_msg_id \in Keys(map)
    THEN [map EXCEPT ![IndexOf(map, self.sequential_msg_id)] = self]
    ELSE Append(map, self)

\* SEQUENTIAL_MSG.pop(id), for a key that is present
Pop(map, id) == SelectSeq(map, LAMBDA s : s.sequential_msg_id # id)

\* mutant: the limit compared one too high
OverLimitOffByOne(map, limit) == limit # Unbounded /\ Len(map) > limit + 1

\* len(SEQUENTIAL_MSG) > SEQ_LIMIT
OverLimit(map, limit) == limit # Unbounded /\ Len(map) > limit

\* mutant: list(SEQUENTIAL_MSG)[-1], the newest key instead of the oldest
Newest(map) == map[Len(map)].sequential_msg_id

\* list(SEQUENTIAL_MSG)[0]
Oldest(map) == map[1].sequential_msg_id

\* "Remove the oldest if greater than the limit": the map and the NOTIFY calls
Evict(map, limit) ==
    IF OverLimit(map, limit)
    THEN [map |-> Pop(map, Oldest(map)), notified |-> <<Oldest(map)>>]
    ELSE [map |-> map, notified |-> <<>>]

\* mutant: the previous slot is kept for a fragment 1
ValidPrevKept(self, prev) == prev

\* "if self.fragment == 1: prev_seq = None"
ValidPrev(self, prev) == IF self.fragment = 1 THEN <<>> ELSE prev

\* last, prev_payload
LastFragment(prev) == IF prev # <<>> THEN prev[1].fragment ELSE 0
PrevPayload(prev) == IF prev # <<>> THEN prev[1].payload ELSE ""

\* mutant: the chunks joined the wrong way round
ConcatenateSwapped(prev_payload, payload) == payload \o prev_payload

\* "self.payload = prev_payload + self.payload"
Concatenate(prev_payload, payload) == prev_payload \o payload

\* "if last + 1 != self.fragment"
OutOfTurn(self, last) == last + 1 # self.fragment

\* self.payload = prev_payload + self.payload; self is the object the map
\* holds under its id (if it still holds it), so the slot changes with it
StitchNothing(map, id, payload) == map

Stitch(map, id, payload) ==
    [i \in DOMAIN map |->
        IF map[i].sequential_msg_id = id
        THEN [map[i] EXCEPT !.payload = payload] ELSE map[i]]

\* VDM.is_complete
is_completeAlways(self) == TRUE

is_complete(self) == self.count = self.fragment

\* VDM.parse_payload, lines 174-201: after the slot is stored and the limit
\* enforced (ev), with prev0 what the map held under the id before
\* "bits.from_sixbit(payload)": the arguments the bit vector is filled from
from_sixbit_args(self, payload) == <<payload>>

\* "cls.SEQUENTIAL_MSG.pop(self.sequential_msg_id)" before
\* "self.sub_fields = self.parse_complete_payload(self.payload)"
RemoveAfterDecode(map, id, decoderFails) ==
    IF decoderFails THEN map ELSE Pop(map, id)

Remove(map, id, decoderFails) == Pop(map, id)

CheckAndStitch(self, prev0, ev, decoderFails) ==
    LET id == self.sequential_msg_id
        last == LastFragment(ValidPrev(self, prev0))
        payload == Concatenate(PrevPayload(ValidPrev(self, prev0)), self.payload)
        none == [prev_seq |-> prev0, notified |-> ev.notified, decoded |-> <<>>,
                 unpacked |-> <<>>, sub_fields |-> <<>>, missing |-> 0]
    IN  IF OutOfTurn(self, last)
        THEN IF id \in Keys(ev.map)
             THEN [none EXCEPT !.missing = last + 1] @@
                  [map |-> Pop(ev.map, id), outcome |-> "IncompleteMessageError",
                   raised |-> "IncompleteMessageError", result |-> self.payload]
             ELSE none @@
                  [map |-> ev.map, outcome |-> "KeyError", raised |-> "KeyError",
                   result |-> self.payload]
        ELSE IF is_complete(self)
             THEN IF id \in Keys(ev.map)
                  THEN [none EXCEPT
                            !.decoded = <<[payload |-> payload,
                                           args |-> from_sixbit_args(self, payload),
                                           raised |-> decoderFails]>>,
                            !.unpacked = IF decoderFails THEN <<>>
                                         ELSE Unpack(payload),
                            !.sub_fields = IF decoderFails THEN <<>>
                                           ELSE Interpret(Unpack(payload))] @@
                       [map |-> Remove(ev.map, id, decoderFails),
                        outcome |-> "Complete",
                        raised |-> IF decoderFails THEN "DecodeError" ELSE "",
                        result |-> payload]
                  ELSE none @@
                       [map |-> ev.map, outcome |-> "KeyError",
                        raised |-> "KeyError", result |-> payload]
             ELSE none @@
                  [map |-> Stitch(ev.map, id, payload), outcome |-> "Pending",
                   raised |-> "", result |-> payload]

\* VDM.parse_payload on sentence self, the external decoder failing or not
parse_payload(map, limit, self, decoderFails) ==
    CheckAndStitch(self, Get(map, self.sequential_msg_id),
                   Evict(SetItem(map, self), limit), decoderFails)

\* mutant: the constructor parses the payload without looking at it
ConstructAlways(self, decoderFails) ==
    \E r \in {parse_payload(SEQUENTIAL_MSG, SEQ_LIMIT, self, decoderFails)} :
        /\ SEQUENTIAL_MSG' = r.map
        /\ prev_seq' = r.prev_seq
        /\ outcome' = r.outcome
        /\ result' = r.result
        /\ missing' = r.missing
        /\ notified' = r.notified
        /\ decoded' = r.decoded
        /\ raised' = r.raised
        /\ unpacked' = r.unpacked
        /\ sub_fields' = r.sub_fields

\* VDM.__init__: a sentence without payload is left unparsed
Construct(self, decoderFails) ==
    IF self.payload # ""
    THEN \E r \in {parse_payload(SEQUENTIAL_MSG, SEQ_LIMIT, self, decoderFails)} :
             /\ SEQUENTIAL_MSG' = r.map
             /\ prev_seq' = r.prev_seq
             /\ outcome' = r.outcome
             /\ result' = r.result
             /\ missing' = r.missing
             /\ notified' = r.notified
             /\ decoded' = r.decoded
             /\ raised' = r.raised
             /\ unpacked' = r.unpacked
             /\ sub_fields' = r.sub_fields
    ELSE /\ outcome' = "Unparsed"
         /\ result' = ""
         /\ missing' = 0
         /\ prev_seq' = <<>>
         /\ notified' = <<>>
         /\ decoded' = <<>>
         /\ raised' = ""
         /\ unpacked' = <<>>
         /\ sub_fields' = <<>>
         /\ UNCHANGED SEQUENTIAL_MSG

\* ---- history of the input stream, kept apart from the map: for each id the
\* chunks of the sentences with payload received since its last fragment 1,
\* as long as each came in turn (fragment k+1 after fragment k). The history
\* of an id ends when NOTIFY names the id, and, at the next call, when the
\* last call was given the id's final sentence (fragment = count).
Final(s) == s # <<>> /\ s[1].payload # "" /\ s[1].fragment = s[1].count

Extend(chunks, self) ==
    IF self.fragment = 1 THEN <<self.payload>>
    ELSE IF chunks # <<>> /\ self.fragment = Len(chunks) + 1
         THEN Append(chunks, self.payload)
         ELSE <<>>

Record(self) ==
    chain' = [x \in AllIds |->
                LET chunks == IF Final(sentence) /\ sentence[1].sequential_msg_id = x
                              THEN <<>> ELSE chain[x]
                IN  IF x \in Range(notified') THEN <<>>
                    ELSE IF x = self.sequential_msg_id /\ self.payload # ""
                         THEN Extend(chunks, self)
                         ELSE chunks]

Accept(self, decoderFails) ==
    /\ Construct(self, decoderFails)
    /\ sentence' = <<self>>
    /\ Record(self)
    /\ UNCHANGED <<SEQ_LIMIT, threads, atomic>>

InitWith(limits) ==
    /\ SEQUENTIAL_MSG = <<>>
    /\ SEQ_LIMIT \in limits
    /\ sentence = <<>>
    /\ prev_seq = <<>>
    /\ outcome = "None"
    /\ result = ""
    /\ missing = 0
    /\ notified = <<>>
    /\ decoded = <<>>
    /\ raised = ""
    /\ unpacked = <<>>
    /\ sub_fields = <<>>
    /\ chain = [x \in AllIds |-> <<>>]
    /\ threads = <<>>
    /\ atomic = TRUE

\* the external decoder is reached, and may fail, only when the call completes
DecoderOutcomes(self) ==
    IF self.payload # "" /\ is_complete(self) THEN BOOLEAN ELSE {FALSE}

Init == InitWith(Limits(Ids))

Next == \E self \in Sentences(Ids, Chunks) :
            \E f \in DecoderOutcomes(self) : Accept(self, f)

Spec == Init /\ [][Next]_vars

InitCap == InitWith(Limits(CapIds))

NextCap == \E self \in Sentences(CapIds, CapChunks) :
               \E f \in DecoderOutcomes(self) : Accept(self, f)

SpecCap == InitCap /\ [][NextCap]_vars

\* the default: SEQ_LIMIT = float("inf")
InitUnb == InitWith({Unbounded})

SpecUnb == InitUnb /\ [][Next]_vars

\* sentences of one id whose fill_bits field varies
NextFill == \E self \in SentencesWith({1}, CapChunks, FillBitsTwo) :
                \E f \in DecoderOutcomes(self) : Accept(self, f)

SpecFill == InitUnb /\ [][NextFill]_vars

\* ---- two threads, each constructing one sentence of the same id; the map
\* holds references to the sentence objects, so a slot is the id and the
\* thread whose sentence it is, and the sentence's fields are read through it
Threads == {1, 2}
RaceChunks == <<"A", "B">>

RaceSentences(t) ==
    [count : 1 .. RaceFrag, fragment : 1 .. RaceFrag, sequential_msg_id : {1},
     payload : {RaceChunks[t]}, fill_bits : FillBits]

Ref(t) == [sequential_msg_id |-> threads[t].self.sequential_msg_id, obj |-> t]

\* the sentence a reference stands for, as it is now
Deref(refs) == [i \in DOMAIN refs |-> threads[refs[i].obj].self]

InitRace ==
    /\ SEQUENTIAL_MSG = <<>>
    /\ SEQ_LIMIT \in Limits({1})
    /\ sentence = <<>>
    /\ prev_seq = <<>>
    /\ outcome = "None"
    /\ result = ""
    /\ missing = 0
    /\ notified = <<>>
    /\ decoded = <<>>
    /\ raised = ""
    /\ unpacked = <<>>
    /\ sub_fields = <<>>
    /\ chain = [x \in AllIds |-> <<>>]
    /\ atomic \in BOOLEAN
    /\ \E s1 \in RaceSentences(1), s2 \in RaceSentences(2) :
          threads = [t \in Threads |->
                       [pc |-> "lookup", arg |-> IF t = 1 THEN s1 ELSE s2,
                        self |-> IF t = 1 THEN s1 ELSE s2, prev_seq |-> <<>>,
                        prev_payload |-> "", outcome |-> "None"]]

\* a thread may take a step unless calls are atomic and another is under way
MayStep(t) ==
    atomic => \A u \in Threads \ {t} : threads[u].pc \in {"lookup", "done"}

RaceFrame ==
    UNCHANGED <<SEQ_LIMIT, sentence, prev_seq, outcome, result, missing,
                decoded, raised, unpacked, sub_fields, chain, atomic>>

LookupNothing(map, id) == <<>>

\* "prev_seq = cls.SEQUENTIAL_MSG.get(self.sequential_msg_id, None)"
Lookup(map, id) == Get(map, id)

LookupStep(t) ==
    /\ threads[t].pc = "lookup" /\ MayStep(t)
    /\ threads' = [threads EXCEPT
                      ![t].prev_seq = Lookup(SEQUENTIAL_MSG,
                                             threads[t].self.sequential_msg_id),
                      ![t].pc = "store"]
    /\ UNCHANGED <<SEQUENTIAL_MSG, notified>>
    /\ RaceFrame

\* "cls.SEQUENTIAL_MSG[self.sequential_msg_id] = self"
StoreStep(t) ==
    /\ threads[t].pc = "store" /\ MayStep(t)
    /\ SEQUENTIAL_MSG' = SetItem(SEQUENTIAL_MSG, Ref(t))
    /\ threads' = [threads EXCEPT ![t].pc = "evict"]
    /\ UNCHANGED notified
    /\ RaceFrame

\* "if len(cls.SEQUENTIAL_MSG) > cls.SEQ_LIMIT: ... pop(old) ... NOTIFY(...)"
EvictStep(t) ==
    /\ threads[t].pc = "evict" /\ MayStep(t)
    /\ \E ev \in {Evict(SEQUENTIAL_MSG, SEQ_LIMIT)} :
          /\ SEQUENTIAL_MSG' = ev.map
          /\ notified' = notified \o ev.notified
    /\ threads' = [threads EXCEPT ![t].pc = "validate"]
    /\ RaceFrame

\* "if self.fragment == 1: prev_seq = None" up to
\* "raise IncompleteMessageError(...)"
ValidateStep(t) ==
    /\ threads[t].pc = "validate" /\ MayStep(t)
    /\ LET self == threads[t].self
           id == self.sequential_msg_id
           prev == ValidPrev(self, Deref(threads[t].prev_seq))
       IN  IF OutOfTurn(self, LastFragment(prev))
           THEN IF id \in Keys(SEQUENTIAL_MSG)
                THEN /\ SEQUENTIAL_MSG' = Pop(SEQUENTIAL_MSG, id)
                     /\ threads' = [threads EXCEPT
                                       ![t].outcome = "IncompleteMessageError",
                                       ![t].pc = "done"]
                ELSE /\ UNCHANGED SEQUENTIAL_MSG
                     /\ threads' = [threads EXCEPT ![t].outcome = "KeyError",
                                                    ![t].pc = "done"]
           ELSE /\ UNCHANGED SEQUENTIAL_MSG
                /\ threads' = [threads EXCEPT
                                  ![t].prev_payload = PrevPayload(prev),
                                  ![t].pc = "concatenate"]
    /\ UNCHANGED notified
    /\ RaceFrame

\* "self.payload = prev_payload + self.payload"
ConcatenateStep(t) ==
    /\ threads[t].pc = "concatenate" /\ MayStep(t)
    /\ threads' = [threads EXCEPT
                      ![t].self.payload = Concatenate(threads[t].prev_payload,
                                                      threads[t].self.payload),
                      ![t].pc = "remove"]
    /\ UNCHANGED <<SEQUENTIAL_MSG, notified>>
    /\ RaceFrame

\* "if self.is_complete(): cls.SEQUENTIAL_MSG.pop(self.sequential_msg_id) ..."
RemoveStep(t) ==
    /\ threads[t].pc = "remove" /\ MayStep(t)
    /\ LET self == threads[t].self
           id == self.sequential_msg_id
       IN  IF is_complete(self)
           THEN IF id \in Keys(SEQUENTIAL_MSG)
                THEN /\ SEQUENTIAL_MSG' = Pop(SEQUENTIAL_MSG, id)
                     /\ threads' = [threads EXCEPT ![t].outcome = "Complete",
                                                    ![t].pc = "done"]
                ELSE /\ UNCHANGED SEQUENTIAL_MSG
                     /\ threads' = [threads EXCEPT ![t].outcome = "KeyError",
                                                    ![t].pc = "done"]
           ELSE /\ UNCHANGED SEQUENTIAL_MSG
                /\ threads' = [threads EXCEPT ![t].outcome = "Pending",
                                               ![t].pc = "done"]
    /\ UNCHANGED notified
    /\ RaceFrame

NextRace ==
    \E t \in Threads :
        \/ LookupStep(t)
        \/ StoreStep(t)
        \/ EvictStep(t)
        \/ ValidateStep(t)
        \/ ConcatenateStep(t)
        \/ RemoveStep(t)

SpecRace == InitRace /\ [][NextRace]_vars

\* parse_complete_payload on its own: one turn of "for field in sub_fields"
\* for each raw field the unpacking yields
Yield(field) ==
    /\ Len(unpacked) < MaxFields
    /\ unpacked' = Append(unpacked, field)
    /\ sub_fields' = Append(sub_fields, InterpretField(field))
    /\ UNCHANGED <<SEQUENTIAL_MSG, SEQ_LIMIT, sentence, prev_seq, outcome,
                   result, missing, notified, decoded, raised, chain,
                   threads, atomic>>

NextFields == \E field \in RawFields : Yield(field)

SpecFields == InitUnb /\ [][NextFields]_vars

\* ---- the sentence of the last call
Called == sentence # <<>>
Self == sentence[1]
Parsed == Called /\ Self.payload # ""
Slot(id) == Get(SEQUENTIAL_MSG, id)

\* C1: fragments 1..n of an id, each with count n, received in turn without
\* the id being evicted: calls 1..n-1 are Pending, call n is Complete with the
\* chunks joined in order, and no slot is left for the id. (Stated for every
\* run of fragments in turn: the sentence that ends it is the first whose
\* fragment equals its count.)
C1_InOrderChainCompletes ==
    \A x \in AllIds :
        (Parsed /\ Self.sequential_msg_id = x /\ chain[x] # <<>>)
        => IF Self.fragment # Self.count
           THEN outcome = "Pending"
           ELSE /\ outcome = "Complete"
                /\ result = Join(chain[x])
                /\ x \notin Keys(SEQUENTIAL_MSG)

C1_Witness ==
    /\ Parsed /\ outcome = "Complete" /\ Self.count = 3
    /\ LET chunks == chain[Self.sequential_msg_id]
       IN  /\ Len(chunks) = 3
           /\ chunks[1] # chunks[2]
           /\ result = Join(chunks)

\* C2: a sentence with count 1, fragment 1 and a payload is Complete on that
\* call, whatever the map holds, with its own chunk as payload, and leaves no
\* slot for its id.
C2_SingleFragmentCompletes ==
    (Parsed /\ Self.count = 1 /\ Self.fragment = 1)
    => /\ outcome = "Complete"
       /\ result = Self.payload
       /\ Self.sequential_msg_id \notin Keys(SEQUENTIAL_MSG)

\* the fragment the map makes a sentence's id expect next
ExpectedNext(s) ==
    IF Slot(s.sequential_msg_id) # <<>> /\ s.fragment # 1
    THEN Slot(s.sequential_msg_id)[1].fragment + 1
    ELSE 1

\* C3: a call with payload fails with IncompleteMessageError exactly when the
\* sentence's fragment is not the expected one (the stored slot's fragment
\* plus 1, or 1 without a slot or for fragment 1); the error names the
\* expected fragment and no slot is left for the id.
C3_OutOfTurnRaises ==
    [][LET s == sentence'[1] IN
         (s.payload # "")
         => /\ (outcome' = "IncompleteMessageError") <=> (s.fragment # ExpectedNext(s))
            /\ (outcome' = "IncompleteMessageError")
               => /\ missing' = ExpectedNext(s)
                  /\ s.sequential_msg_id \notin Keys(SEQUENTIAL_MSG')]_vars

\* C4: fragment k+2 of an id right after its fragment k was accepted fails
\* with IncompleteMessageError and leaves no slot for the id; a fragment 1 of
\* the id right after that failure is accepted and carries its own chunk only.
C4_SkipRaisesThenFreshStart ==
    [][LET s == sentence'[1] IN
         (Parsed /\ s.payload # ""
             /\ s.sequential_msg_id = Self.sequential_msg_id)
         => /\ (outcome = "Pending" /\ s.fragment = Self.fragment + 2)
               => /\ outcome' = "IncompleteMessageError"
                  /\ s.sequential_msg_id \notin Keys(SEQUENTIAL_MSG')
            /\ (outcome = "IncompleteMessageError" /\ s.fragment = 1)
               => /\ outcome' = (IF s.count = 1 THEN "Complete" ELSE "Pending")
                  /\ result' = s.payload]_vars

\* C5: a fragment 1 for an id that has a slot does not fail; the call is
\* Pending (Complete when count is 1) with the sentence's own chunk, and the
\* slot of an id always holds the chunks received in turn since its last
\* fragment 1, joined in order, and nothing older.
C5_RestartStep ==
    LET s == sentence'[1] IN
        (s.payload # "" /\ s.fragment = 1
            /\ Slot(s.sequential_msg_id) # <<>>)
        => /\ outcome' = (IF s.count = 1 THEN "Complete" ELSE "Pending")
           /\ result' = s.payload
           /\ Get(SEQUENTIAL_MSG', s.sequential_msg_id)
                = (IF s.count = 1 THEN <<>> ELSE <<s>>)

C5_SlotHoldsCurrentChain ==
    /\ \A x \in Keys(SEQUENTIAL_MSG) :
        /\ chain[x] # <<>>
        /\ Slot(x)[1].payload = Join(chain[x])
        /\ Slot(x)[1].fragment = Len(chain[x])
    /\ (Parsed /\ outcome = "Complete" /\ prev_seq # <<>>)
       => /\ chain[Self.sequential_msg_id] # <<>>
          /\ result = Join(chain[Self.sequential_msg_id])

\* C5, both parts: the restart step never fails and carries its own chunk
\* only, and no slot ever holds a chunk older than its id's last fragment 1.
C5_RestartDiscardsOldChain ==
    [][C5_RestartStep]_vars /\ []C5_SlotHoldsCurrentChain

C5_Witness ==
    /\ Parsed /\ Self.fragment = 1 /\ outcome = "Pending"
    /\ prev_seq # <<>> /\ prev_seq[1].fragment = 2
    /\ prev_seq[1].payload # Self.payload \o Self.payload
    /\ Slot(Self.sequential_msg_id) = <<Self>>

\* whether the call for sentence s pushes the slot count above the limit
Pushes(s) ==
    /\ s.payload # ""
    /\ s.sequential_msg_id \notin Keys(SEQUENTIAL_MSG)
    /\ SEQ_LIMIT # Unbounded
    /\ Len(SEQUENTIAL_MSG) + 1 > SEQ_LIMIT

C7_BoundedBuffer ==
    SEQ_LIMIT # Unbounded => Len(SEQUENTIAL_MSG) <= SEQ_LIMIT

C7_Witness ==
    /\ SEQ_LIMIT = 1 /\ Len(SEQUENTIAL_MSG) = 1
    /\ notified # <<>>
    /\ outcome = "Pending"

\* C8: a call that fails with IncompleteMessageError leaves the slots of all
\* other ids as they were and does not call NOTIFY.
C8_FailureLeavesOthers ==
    [][LET x == sentence'[1].sequential_msg_id
       IN  outcome' = "IncompleteMessageError"
           => /\ Pop(SEQUENTIAL_MSG', x) = Pop(SEQUENTIAL_MSG, x)
              /\ notified' = <<>>]_vars

\* C9: a call that evicts ends as the same call would without a limit
\* (Complete, Pending or IncompleteMessageError, with the same payload or
\* expected fragment), never in another failure.
C9_EvictionNotFatal ==
    [][LET s == sentence'[1]
           free == parse_payload(SEQUENTIAL_MSG, Unbounded, s, FALSE)
       IN  notified' # <<>>
           => /\ outcome' \in {"Complete", "Pending", "IncompleteMessageError"}
              /\ outcome' = free.outcome
              /\ result' = free.result
              /\ missing' = free.missing]_vars

\* C10: a sentence with an empty payload is left unparsed: the map is as
\* before, nothing is evicted or notified, no error is raised whatever its
\* fragment, and the decoder is not called.
C10_EmptyPayloadUntouched ==
    [][sentence'[1].payload = ""
       => /\ SEQUENTIAL_MSG' = SEQUENTIAL_MSG
          /\ outcome' = "Unparsed"
          /\ notified' = <<>>
          /\ decoded' = <<>>]_vars

C10_Witness ==
    /\ Called /\ Self.payload = "" /\ outcome = "Unparsed"
    /\ Self.fragment = 3 /\ Self.count = 3
    /\ Slot(Self.sequential_msg_id) # <<>>
    /\ Slot(Self.sequential_msg_id)[1].fragment = 1
    /\ SEQ_LIMIT = 1 /\ Len(SEQUENTIAL_MSG) = 1

\* C11: when the decoder fails on a completed payload the call ends with the
\* decoder's error, and the map then holds no slot for the completed id while
\* every other slot is as it was when the decoder was called (the slots the
\* map held before the call, without those the call evicted).
C11_DecoderFailureAfterRemoval ==
    [][LET x == sentence'[1].sequential_msg_id
           Kept(slot) == /\ slot.sequential_msg_id # x
                         /\ slot.sequential_msg_id \notin Range(notified')
       IN  (decoded' # <<>> /\ decoded'[1].raised)
           => /\ raised' = "DecodeError"
              /\ x \notin Keys(SEQUENTIAL_MSG')
              /\ SEQUENTIAL_MSG' = SelectSeq(SEQUENTIAL_MSG, Kept)]_vars

C11_Witness ==
    /\ Parsed /\ raised = "DecodeError"
    /\ prev_seq # <<>> /\ Self.fragment = 2
    /\ Len(SEQUENTIAL_MSG) = 1
    /\ Self.sequential_msg_id \notin Keys(SEQUENTIAL_MSG)

\* C12: the decoder is handed the fill_bits of the completing sentence: two
\* calls in a row that complete the same payload with different fill_bits
\* invoke the conversion to bits with different arguments.
C12_FillBitsReachDecoder ==
    [][(/\ decoded # <<>> /\ decoded' # <<>>
        /\ decoded'[1].payload = decoded[1].payload
        /\ sentence'[1].fill_bits # Self.fill_bits)
       => decoded'[1].args # decoded[1].args]_vars

\* C13: sub_fields is empty for every Pending call and every sentence without
\* payload; the decoder is called at most once per call, only in a call that
\* is Complete (fragment = count), with the joined chunks of the chain.
C13_FieldsEmptyUntilComplete ==
    /\ outcome \in {"Pending", "Unparsed"}
       => sub_fields = <<>> /\ decoded = <<>>
    /\ Len(decoded) <= 1
    /\ decoded # <<>>
       => /\ outcome = "Complete"
          /\ Self.fragment = Self.count
          /\ decoded[1].payload = result
          /\ result = Join(chain[Self.sequential_msg_id])

C13_Witness ==
    /\ Parsed /\ outcome = "Pending" /\ Self.fragment = 2
    /\ Len(chain[Self.sequential_msg_id]) = 2
    /\ sub_fields = <<>> /\ decoded = <<>>

\* C14: NOTIFY is called with the id of every partial chain a call removes
\* before completion: a slot of another id the call drops from the map, and
\* the slot of the call's own id when the call brings a fragment 1.
C14_NotifyOnEveryDiscard ==
    [][LET s == sentence'[1] IN
         \A x \in Keys(SEQUENTIAL_MSG) :
            (\/ x # s.sequential_msg_id /\ x \notin Keys(SEQUENTIAL_MSG')
             \/ x = s.sequential_msg_id /\ s.payload # "" /\ s.fragment = 1)
            => x \in Range(notified')]_vars

\* whether the chunks received after the call continue those before it
Continues(x) ==
    /\ Len(chain'[x]) >= Len(chain[x])
    /\ SubSeq(chain'[x], 1, Len(chain[x])) = chain[x]

\* C16: whenever a call ends the partial chain of an id in flight without
\* completing it, the call failed with IncompleteMessageError for that id or
\* called NOTIFY with that id.
C16_AbandonedOnlyByErrorOrEviction ==
    [][LET s == sentence'[1] IN
         \A x \in Keys(SEQUENTIAL_MSG) :
            ~Continues(x)
            => \/ x = s.sequential_msg_id /\ outcome' = "IncompleteMessageError"
               \/ x \in Range(notified')]_vars

\* C17, the step: a slot left for the id of a call with payload is the
\* sentence of that call itself, carrying the payload joined so far, and the
\* call was Pending; the slots of the other ids are kept as they are or
\* removed.
C17_SlotStep ==
    LET s == sentence'[1]
        x == s.sequential_msg_id
    IN  /\ (s.payload # "" /\ x \in Keys(SEQUENTIAL_MSG'))
           => /\ outcome' = "Pending"
              /\ Get(SEQUENTIAL_MSG', x) = <<[s EXCEPT !.payload = result']>>
        /\ \A y \in AllIds \ {x} :
              Get(SEQUENTIAL_MSG', y) \in {Slot(y), <<>>}

\* C17, the state: one slot per id; a slot's fragment is the number of chunks
\* received in turn for its id, its payload is those chunks joined in order,
\* and its fragment differs from its count.
C17_SlotState ==
    /\ Cardinality(Keys(SEQUENTIAL_MSG)) = Len(SEQUENTIAL_MSG)
    /\ \A i \in DOMAIN SEQUENTIAL_MSG :
          LET slot == SEQUENTIAL_MSG[i]
              chunks == chain[slot.sequential_msg_id]
          IN  /\ slot.fragment = Len(chunks)
              /\ slot.payload = Join(chunks)
              /\ slot.fragment # slot.count

\* C17: between calls every slot holds the last accepted sentence of its id,
\* with that sentence's fragment, the chunks 1..fragment of the id's current
\* chain joined in order as payload, and a fragment that differs from count.
C17_SlotInvariant ==
    [][C17_SlotStep]_vars /\ []C17_SlotState

C17_Witness ==
    /\ Parsed /\ outcome = "Pending" /\ Self.fragment = 2 /\ Self.count = 3
    /\ LET chunks == chain[Self.sequential_msg_id]
       IN  /\ Len(chunks) = 2 /\ chunks[1] # chunks[2]
           /\ Slot(Self.sequential_msg_id)
                = <<[Self EXCEPT !.payload = chunks[1] \o chunks[2]]>>

\* C18: a call for a sentence with count 1 and fragment 1 does not raise the
\* number of slots, evicts nothing, does not call NOTIFY, and leaves the
\* slots of all other ids as they were, whatever the limit.
C18_SingleFragmentNeverHeld ==
    [][LET s == sentence'[1]
           x == s.sequential_msg_id
       IN  (s.payload # "" /\ s.count = 1 /\ s.fragment = 1)
           => /\ notified' = <<>>
              /\ Len(SEQUENTIAL_MSG') <= Len(SEQUENTIAL_MSG)
              /\ Pop(SEQUENTIAL_MSG', x) = Pop(SEQUENTIAL_MSG, x)]_vars

\* C20: without a limit, a call for an id leaves the slots of all other ids
\* as they were and ends as it would if the map held no other id (same
\* outcome, payload, expected fragment and own slot); so fragments of an id
\* received in turn are Pending up to the last, which is Complete with the
\* id's own chunks joined in order, whatever was received for other ids in
\* between.
C20_IdsIsolated ==
    [][LET s == sentence'[1]
           x == s.sequential_msg_id
           Own(slot) == slot.sequential_msg_id = x
       IN  /\ \A y \in AllIds \ {x} : Get(SEQUENTIAL_MSG', y) = Slot(y)
           /\ s.payload # ""
              => \E alone \in {parse_payload(SelectSeq(SEQUENTIAL_MSG, Own),
                                              SEQ_LIMIT, s,
                                              raised' = "DecodeError")} :
                    /\ outcome' = alone.outcome
                    /\ result' = alone.result
                    /\ missing' = alone.missing
                    /\ Get(SEQUENTIAL_MSG', x) = Get(alone.map, x)
           /\ (s.payload # "" /\ chain'[x] # <<>>)
              => /\ outcome' = (IF s.fragment = s.count THEN "Complete"
                                                        ELSE "Pending")
                 /\ result' = Join(chain'[x])]_vars

C20_Witness ==
    /\ Parsed /\ outcome = "Complete" /\ Self.count = 3
    /\ Len(chain[Self.sequential_msg_id]) = 3
    /\ Len(SEQUENTIAL_MSG) = 1
    /\ SEQUENTIAL_MSG[1].fragment = 2
    /\ SEQUENTIAL_MSG[1].payload # result

\* the value the fallback picks for a raw field with a last item: the
\* callable's result where the call succeeds, else the table's entry where
\* the table has one, else the raw value
Fallback(field) ==
    LET raw == field[2]
        dec == field[5]
    IN  IF dec.kind = "callable" /\ dec.accepts = raw.t THEN dec.out
        ELSE IF dec.kind = "table" /\ dec.accepts = raw.t THEN dec.out
        ELSE raw

\* one interpreted field per raw field, in order; a raw field without last
\* item as it is; otherwise name, value, type, label, raw value, last item
Shaped(Value(_)) ==
    /\ Len(sub_fields) = Len(unpacked)
    /\ \A i \in DOMAIN unpacked :
          LET field == unpacked[i]
          IN  IF Len(field) = 5
              THEN sub_fields[i] = <<field[1], Value(field), field[3], field[4],
                                     field[2], field[5]>>
              ELSE sub_fields[i] = field

\* C19 as stated: the interpreted value is f(raw) where the callable succeeds,
\* the table's entry where the call fails and the table has the raw value, and
\* the raw value itself otherwise; one field per raw field, in order, value
\* second and raw value kept; a raw field without decoder is unchanged.
C19_DecoderFallback == Shaped(Fallback)

\* the numeric reading of a text: an int where all its characters are digits,
\* else a float where it is digits around one point, else the text
Numeric(val) ==
    IF val.t = "str" /\ IntParses(val.s) THEN IntVal(IntOf(val.s))
    ELSE IF val.t = "str" /\ FloatParses(val.s) THEN FloatOf(val.s)
    ELSE val

NumericFallback(field) == Numeric(Fallback(field))

\* C19, amended: the interpreted value is the fallback's value (f(raw), else
\* the table's entry, else the raw value) read as a number where it is a text
\* that parses as int or float; shape and order as stated.
C19_DecoderFallbackCoerced == Shaped(NumericFallback)

C19_Witness ==
    /\ Len(sub_fields) = 2
    /\ Len(unpacked[1]) = 5 /\ unpacked[1][5].kind = "table"
    /\ unpacked[1][2].t = "int" /\ unpacked[1][5].accepts = "int"
    /\ unpacked[1][5].out = StrVal(<<"1", ".">>)
    /\ sub_fields[1][2] = FloatVal(1, 0)
    /\ Len(unpacked[2]) = 5 /\ unpacked[2][5].kind = "callable"
    /\ unpacked[2][5].accepts = "int"
    /\ unpacked[2][2] = StrVal(<<"x">>)
    /\ sub_fields[2][2] = StrVal(<<"x">>)

\* what two finished calls leave behind: how each ended and with which
\* payload, and the sentences the map holds
AllDone == \A t \in Threads : threads[t].pc = "done"

Ended ==
    [calls |-> [t \in Threads |-> <<threads[t].outcome, threads[t].self.payload>>],
     map |-> Deref(SEQUENTIAL_MSG)]

\* what the two calls leave behind when one runs after the other
Serial(first, second) ==
    LET a == parse_payload(<<>>, SEQ_LIMIT, threads[first].arg, FALSE)
        b == parse_payload(a.map, SEQ_LIMIT, threads[second].arg, FALSE)
    IN  [calls |-> [t \in Threads |-> IF t = first THEN <<a.outcome, a.result>>
                                                    ELSE <<b.outcome, b.result>>],
         map |-> b.map]

SerialOutcomes == {Serial(1, 2), Serial(2, 1)}

\* C15: when each call runs as one atomic unit, two calls for the same id end
\* as one of the two serial orders does (results and final map); the steps of
\* a call are not protected by anything, and interleaved step by step two
\* calls can end as no serial order does.
C15_AtomicCallsAreSerial ==
    (atomic /\ AllDone) => Ended \in SerialOutcomes

C15_Witness ==
    /\ ~atomic /\ AllDone
    /\ Ended \notin SerialOutcomes
    /\ SEQ_LIMIT = Unbounded
    /\ threads[1].arg.fragment = 1 /\ threads[2].arg.fragment = 2

====
